---- MODULE Spec2Model ----
(***************************************************************************)
(* A model of fontTools.feaLib.lexer: the single-buffer Lexer (Scanner)    *)
(* and the IncludingLexer (IncludeResolver) that stacks Lexers to splice   *)
(* included files into one token stream.                                   *)
(*                                                                         *)
(* Texts and paths are sequences of one-character strings.  Offsets        *)
(* (pos_, line_start_, start) are 0-based as in the source, so the         *)
(* character at offset p is text[p + 1].                                   *)
(***************************************************************************)
EXTENDS Integers, Sequences, FiniteSets, TLC

(***************************************************************************)
(* Lexer: token types, character classes, modes (class attributes).        *)
(***************************************************************************)
NUMBER == "NUMBER"
\* Lexer.STRING (STRING is a reserved word of TLA+).
STRING_TOKEN == "STRING"
NAME == "NAME"
FILENAME == "FILENAME"
GLYPHCLASS == "GLYPHCLASS"
CID == "CID"
SYMBOL == "SYMBOL"
COMMENT == "COMMENT"
NEWLINE == "NEWLINE"

CHAR_WHITESPACE_ == {" ", "\t"}
CHAR_NEWLINE_ == {"\r", "\n"}
CHAR_SYMBOL_ ==
  {";", ":", "-", "+", "'", "{", "}", "[", "]", "<", ">", "(", ")", "="}
CHAR_DIGIT_ == {"0", "1", "2", "3", "4", "5", "6", "7", "8", "9"}
CHAR_HEXDIGIT_ ==
  CHAR_DIGIT_ \cup {"A", "B", "C", "D", "E", "F", "a", "b", "c", "d", "e", "f"}
CHAR_LETTER_ ==
  {"A", "B", "C", "D", "E", "F", "G", "H", "I", "J", "K", "L", "M",
   "N", "O", "P", "Q", "R", "S", "T", "U", "V", "W", "X", "Y", "Z",
   "a", "b", "c", "d", "e", "f", "g", "h", "i", "j", "k", "l", "m",
   "n", "o", "p", "q", "r", "s", "t", "u", "v", "w", "x", "y", "z"}
CHAR_NAME_START_ ==
  CHAR_LETTER_ \cup {"_", "+", "*", ":", ".", "^", "~", "!", "\\"}
CHAR_NAME_CONTINUATION_ ==
  CHAR_LETTER_ \cup CHAR_DIGIT_ \cup {"_", ".", "+", "*", ":", "^", "~", "!"}

\* RE_GLYPHCLASS = ^[A-Za-z_0-9.]+$
RE_GLYPHCLASS(s) ==
  /\ Len(s) >= 1
  /\ \A i \in 1..Len(s) : s[i] \in CHAR_LETTER_ \cup CHAR_DIGIT_ \cup {"_", "."}

\* The literal the Lexer compares a NAME with to enter file-name mode.
INCLUDE == <<"i", "n", "c", "l", "u", "d", "e">>

MODE_NORMAL_ == "NORMAL"
MODE_FILENAME_ == "FILENAME"

\* The longest glyph class name the Lexer accepts.
MaxGlyphClassLen == 30

(***************************************************************************)
(* int(s, base) as Python computes it for the digit strings the Lexer      *)
(* hands over: an optional leading '-', then digits of the base.           *)
(***************************************************************************)
DigitValue(c) ==
  CASE c = "0" -> 0 [] c = "1" -> 1 [] c = "2" -> 2 [] c = "3" -> 3
    [] c = "4" -> 4 [] c = "5" -> 5 [] c = "6" -> 6 [] c = "7" -> 7
    [] c = "8" -> 8 [] c = "9" -> 9
    [] c \in {"A", "a"} -> 10 [] c \in {"B", "b"} -> 11
    [] c \in {"C", "c"} -> 12 [] c \in {"D", "d"} -> 13
    [] c \in {"E", "e"} -> 14 [] c \in {"F", "f"} -> 15

RECURSIVE DigitsValue(_, _)
DigitsValue(s, base) ==
  IF s = <<>> THEN 0
  ELSE DigitsValue(SubSeq(s, 1, Len(s) - 1), base) * base + DigitValue(s[Len(s)])

\* int(s, 10) for s = digits or '-' digits.
int10(s) ==
  IF s[1] = "-" THEN 0 - DigitsValue(Tail(s), 10) ELSE DigitsValue(s, 10)

\* int("0x" + digits, 16): the two-character prefix is skipped by int().
int16(s) == DigitsValue(SubSeq(s, 3, Len(s)), 16)

\* text[a:b] of Python, offsets 0-based, b exclusive.
Slice(text, a, b) == SubSeq(text, a + 1, b)

(***************************************************************************)
(* Lexer state and the outcome of one call.                                *)
(***************************************************************************)
Lexer(text, filename) ==
  [filename_ |-> filename, line_ |-> 1, pos_ |-> 0, line_start_ |-> 0,
   text_ |-> text, text_length_ |-> Len(text), mode_ |-> MODE_NORMAL_]

Location(filename, line, column) ==
  [file |-> filename, line |-> line, column |-> column]

\* Exceptions other than FeatureLibError carry no location.
NoLocation == Location(<<>>, 0, 0)

\* A call that returns (token_type, token, location).  The token's payload
\* is text (token) or an integer (value); start is the local variable start.
Return(self, token_type, token, value, location, start) ==
  [lexer |-> self, outcome |-> "TOKEN", token_type |-> token_type,
   token |-> token, value |-> value, location |-> location,
   message |-> "", start |-> start]

\* A call that raises: kind is the exception's class.
Raise(self, kind, message, location, start) ==
  [lexer |-> self, outcome |-> kind, token_type |-> "",
   token |-> <<>>, value |-> 0, location |-> location,
   message |-> message, start |-> start]

\* Mutant of ScanOverFrom: a do-while loop, the first character is skipped
\* without being tested.
RECURSIVE ScanOverLoop(_, _, _)
ScanOverLoop(text, p, valid) ==
  IF p < Len(text) /\ text[p + 1] \in valid
  THEN ScanOverLoop(text, p + 1, valid)
  ELSE p

ScanOverFrom_DoWhile(text, p, valid) ==
  IF p < Len(text) THEN ScanOverLoop(text, p + 1, valid) ELSE p

RECURSIVE ScanOverFrom(_, _, _)
ScanOverFrom(text, p, valid) ==
  IF p < Len(text) /\ text[p + 1] \in valid
  THEN ScanOverFrom(text, p + 1, valid)
  ELSE p

RECURSIVE ScanUntilFrom(_, _, _)
ScanUntilFrom(text, p, stop_at) ==
  IF p < Len(text) /\ text[p + 1] \notin stop_at
  THEN ScanUntilFrom(text, p + 1, stop_at)
  ELSE p

scan_over_(self, valid) ==
  [self EXCEPT !.pos_ = ScanOverFrom(self.text_, self.pos_, valid)]

scan_until_(self, stop_at) ==
  [self EXCEPT !.pos_ = ScanUntilFrom(self.text_, self.pos_, stop_at)]

(***************************************************************************)
(* The three checks of a glyph class name, in the order of the code, and   *)
(* the switch to file name mode after the name "include".                  *)
(***************************************************************************)
TooShortMessage == "Expected glyph class name"
TooLongMessage == "Glyph class names must not be longer than 30 characters"
IllegalMessage ==
  "Glyph class names must consist of letters, digits, underscore, or period"

\* Mutant of GlyphClass: the characters are checked before the length.
GlyphClass_RegexFirst(s, glyphclass, location, start) ==
  IF Len(glyphclass) < 1 THEN
    Raise(s, "FeatureLibError", TooShortMessage, location, start)
  ELSE IF ~RE_GLYPHCLASS(glyphclass) THEN
    Raise(s, "FeatureLibError", IllegalMessage, location, start)
  ELSE IF Len(glyphclass) > MaxGlyphClassLen THEN
    Raise(s, "FeatureLibError", TooLongMessage, location, start)
  ELSE Return(s, GLYPHCLASS, glyphclass, 0, location, start)

GlyphClass(s, glyphclass, location, start) ==
  IF Len(glyphclass) < 1 THEN
    Raise(s, "FeatureLibError", TooShortMessage, location, start)
  ELSE IF Len(glyphclass) > MaxGlyphClassLen THEN
    Raise(s, "FeatureLibError", TooLongMessage, location, start)
  ELSE IF ~RE_GLYPHCLASS(glyphclass) THEN
    Raise(s, "FeatureLibError", IllegalMessage, location, start)
  ELSE Return(s, GLYPHCLASS, glyphclass, 0, location, start)

\* Mutant of AfterCarriageReturn: '\r' is taken for '\r\n' whatever follows.
AfterCarriageReturn_Two(start, has_next, next_char) == start + 2

\* The position after the newline that starts with '\r' at offset start.
AfterCarriageReturn(start, has_next, next_char) ==
  start + (IF has_next /\ next_char = "\n" THEN 2 ELSE 1)

\* Mutant of NameMode: every name that starts with "include" switches.
NameMode_Prefix(s, token) ==
  IF Len(token) >= Len(INCLUDE) /\ SubSeq(token, 1, Len(INCLUDE)) = INCLUDE
  THEN [s EXCEPT !.mode_ = MODE_FILENAME_]
  ELSE s

NameMode(s, token) ==
  IF token = INCLUDE THEN [s EXCEPT !.mode_ = MODE_FILENAME_] ELSE s

(***************************************************************************)
(* Lexer.next_: one raw token, or an exception.  A comparison              *)
(* "next_char in <string>" with next_char = None (the buffer ends after    *)
(* cur_char) raises TypeError; int("0x", 16) raises ValueError.  The       *)
(* assignments made before an exception is raised stay in the Lexer.       *)
(***************************************************************************)
next_(self0) ==
  LET self == scan_over_(self0, CHAR_WHITESPACE_)
      column == self.pos_ - self.line_start_ + 1
      location == Location(self.filename_, self.line_, column)
      start == self.pos_
      text == self.text_
      limit == Len(text)
      cur_char == text[start + 1]
      has_next == start + 1 < limit
      next_char == text[start + 2]
      at(n) == [self EXCEPT !.pos_ = n]
  IN
  IF start >= limit THEN
    Raise(self, "StopIteration", "", NoLocation, start)
  ELSE IF cur_char = "\n" THEN
    Return([self EXCEPT !.pos_ = start + 1, !.line_ = @ + 1,
                        !.line_start_ = start + 1],
           NEWLINE, <<>>, 0, location, start)
  ELSE IF cur_char = "\r" THEN
    LET p == AfterCarriageReturn(start, has_next, next_char)
    IN Return([self EXCEPT !.pos_ = p, !.line_ = @ + 1, !.line_start_ = p],
              NEWLINE, <<>>, 0, location, start)
  ELSE IF cur_char = "#" THEN
    LET s == scan_until_(self, CHAR_NEWLINE_)
    IN Return(s, COMMENT, Slice(text, start, s.pos_), 0, location, start)
  ELSE IF self.mode_ = MODE_FILENAME_ THEN
    IF cur_char # "(" THEN
      Raise(self, "FeatureLibError", "Expected '(' before file name",
            location, start)
    ELSE
      LET s == scan_until_(self, {")"})
      IN IF ~(s.pos_ < limit /\ text[s.pos_ + 1] = ")") THEN
           Raise(s, "FeatureLibError", "Expected ')' after file name",
                 location, start)
         ELSE
           Return([s EXCEPT !.pos_ = @ + 1, !.mode_ = MODE_NORMAL_],
                  FILENAME, Slice(text, start + 1, s.pos_), 0, location, start)
  ELSE IF cur_char = "\\" /\ ~has_next THEN
    Raise(self, "TypeError", "'in <string>' requires string as left operand",
          NoLocation, start)
  ELSE IF cur_char = "\\" /\ next_char \in CHAR_DIGIT_ THEN
    LET s == scan_over_(at(start + 1), CHAR_DIGIT_)
    IN Return(s, CID, <<>>, int10(Slice(text, start + 1, s.pos_)),
              location, start)
  ELSE IF cur_char = "@" THEN
    LET s == scan_over_(at(start + 1), CHAR_NAME_CONTINUATION_)
        glyphclass == Slice(text, start + 1, s.pos_)
    IN GlyphClass(s, glyphclass, location, start)
  ELSE IF cur_char \in CHAR_NAME_START_ THEN
    LET s == scan_over_(at(start + 1), CHAR_NAME_CONTINUATION_)
        token == Slice(text, start, s.pos_)
    IN Return(NameMode(s, token), NAME, token, 0, location, start)
  ELSE IF cur_char = "0" /\ ~has_next THEN
    Raise(self, "TypeError", "'in <string>' requires string as left operand",
          NoLocation, start)
  ELSE IF cur_char = "0" /\ next_char \in {"x", "X"} THEN
    LET s == scan_over_(at(start + 2), CHAR_HEXDIGIT_)
    IN IF s.pos_ = start + 2 THEN
         Raise(s, "ValueError", "invalid literal for int() with base 16",
               NoLocation, start)
       ELSE Return(s, NUMBER, <<>>, int16(Slice(text, start, s.pos_)),
                   location, start)
  ELSE IF cur_char \in CHAR_DIGIT_ THEN
    LET s == scan_over_(self, CHAR_DIGIT_)
    IN Return(s, NUMBER, <<>>, int10(Slice(text, start, s.pos_)),
              location, start)
  ELSE IF cur_char = "-" /\ ~has_next THEN
    Raise(self, "TypeError", "'in <string>' requires string as left operand",
          NoLocation, start)
  ELSE IF cur_char = "-" /\ next_char \in CHAR_DIGIT_ THEN
    LET s == scan_over_(at(start + 1), CHAR_DIGIT_)
    IN Return(s, NUMBER, <<>>, int10(Slice(text, start, s.pos_)),
              location, start)
  ELSE IF cur_char \in CHAR_SYMBOL_ THEN
    Return(at(start + 1), SYMBOL, <<cur_char>>, 0, location, start)
  ELSE IF cur_char = "\"" THEN
    LET s == scan_until_(at(start + 1), {"\"", "\r", "\n"})
    IN IF s.pos_ < s.text_length_ /\ s.text_[s.pos_ + 1] = "\"" THEN
         Return([s EXCEPT !.pos_ = @ + 1], STRING_TOKEN,
                Slice(text, start + 1, s.pos_), 0, location, start)
       ELSE
         Raise(s, "FeatureLibError", "Expected '\"' to terminate string",
               location, start)
  ELSE
    Raise(self, "FeatureLibError", "Unexpected character", location, start)

(***************************************************************************)
(* Lexer.__next__ (next): calls next_ until the token is neither a         *)
(* COMMENT nor a NEWLINE; an exception of next_ propagates.                *)
(***************************************************************************)
\* Mutant of Lexer_next: no filter, whatever next_ yields is returned.
Lexer_next_Unfiltered(self) == next_(self)

RECURSIVE Lexer_next(_)
Lexer_next(self) ==
  LET r == next_(self)
  IN IF r.outcome = "TOKEN" /\ r.token_type \in {COMMENT, NEWLINE}
     THEN Lexer_next(r.lexer)
     ELSE r

(***************************************************************************)
(* Paths (posixpath): os.path.split and os.path.join on character          *)
(* sequences.                                                              *)
(***************************************************************************)
RECURSIVE LastSlash(_, _)
\* p.rfind('/') + 1 over the first n characters: 0 when there is no '/'.
LastSlash(p, n) ==
  IF n = 0 THEN 0 ELSE IF p[n] = "/" THEN n ELSE LastSlash(p, n - 1)

RECURSIVE RStripSlash(_)
RStripSlash(p) ==
  IF p # <<>> /\ p[Len(p)] = "/" THEN RStripSlash(SubSeq(p, 1, Len(p) - 1))
  ELSE p

\* os.path.split(p)[0]
PathHead(p) ==
  LET i == LastSlash(p, Len(p))
      head == SubSeq(p, 1, i)
  IN IF head # <<>> /\ (\E k \in 1..Len(head) : head[k] # "/")
     THEN RStripSlash(head)
     ELSE head

\* os.path.join(a, b)
PathJoin(a, b) ==
  IF b # <<>> /\ b[1] = "/" THEN b
  ELSE IF a = <<>> \/ a[Len(a)] = "/" THEN a \o b
  ELSE a \o <<"/">> \o b

(***************************************************************************)
(* IncludingLexer.  fs is the file system: a function from the paths that  *)
(* can be opened to their decoded text.                                    *)
(***************************************************************************)
\* The stack may not grow beyond this many Lexers.
MaxIncludeDepth == 5

\* What a call of IncludingLexer.__next__ leaves and signals.
IncResult(lexers, r) ==
  [lexers_ |-> lexers, outcome |-> r.outcome, token_type |-> r.token_type,
   token |-> r.token, value |-> r.value, location |-> r.location,
   message |-> r.message]

IncRaise(lexers, kind, message, location) ==
  [lexers_ |-> lexers, outcome |-> kind, token_type |-> "",
   token |-> <<>>, value |-> 0, location |-> location, message |-> message]

\* IncludingLexer.make_lexer_: whether codecs.open succeeds.
CanOpen(fs, filename) == filename \in DOMAIN fs

make_lexer_(fs, filename) == Lexer(fs[filename], filename)

\* lexers with its top Lexer (the object the local variable lexer names,
\* mutated in place by its own next()) replaced by its new state.
SetTop(lexers, lexer) == [lexers EXCEPT ![Len(lexers)] = lexer]

\* Mutant of Pop: lexers_.pop(0), the bottom of the stack goes.
Pop_Front(lexers) == Tail(lexers)

Pop(lexers) == SubSeq(lexers, 1, Len(lexers) - 1)

\* Mutants of PushInclude: the depth check off by one, either way.
PushInclude_Above(fs, lexers, lexer, fname_token, fname_location) ==
  LET path == PathJoin(PathHead(lexer.filename_), fname_token)
  IN IF Len(lexers) > MaxIncludeDepth THEN
       IncRaise(lexers, "FeatureLibError", "Too many recursive includes",
                fname_location)
     ELSE IF ~CanOpen(fs, path) THEN
       IncRaise(lexers, "FeatureLibError", "No such file or directory",
                fname_location)
     ELSE
       IncRaise(Append(lexers, make_lexer_(fs, path)), "continue", "",
                NoLocation)

PushInclude_Below(fs, lexers, lexer, fname_token, fname_location) ==
  LET path == PathJoin(PathHead(lexer.filename_), fname_token)
  IN IF Len(lexers) >= MaxIncludeDepth - 1 THEN
       IncRaise(lexers, "FeatureLibError", "Too many recursive includes",
                fname_location)
     ELSE IF ~CanOpen(fs, path) THEN
       IncRaise(lexers, "FeatureLibError", "No such file or directory",
                fname_location)
     ELSE
       IncRaise(Append(lexers, make_lexer_(fs, path)), "continue", "",
                NoLocation)

\* Mutant of PushInclude: the path is joined to the root file's directory.
PushInclude_RootDir(fs, lexers, lexer, fname_token, fname_location) ==
  LET path == PathJoin(PathHead(lexers[1].filename_), fname_token)
  IN IF Len(lexers) >= MaxIncludeDepth THEN
       IncRaise(lexers, "FeatureLibError", "Too many recursive includes",
                fname_location)
     ELSE IF ~CanOpen(fs, path) THEN
       IncRaise(lexers, "FeatureLibError", "No such file or directory",
                fname_location)
     ELSE
       IncRaise(Append(lexers, make_lexer_(fs, path)), "continue", "",
                NoLocation)

\* The include branch of __next__ once the three directive tokens are read:
\* the depth check, then make_lexer_ and append.  None when it raises.
PushInclude(fs, lexers, lexer, fname_token, fname_location) ==
  LET curpath == PathHead(lexer.filename_)
      path == PathJoin(curpath, fname_token)
  IN IF Len(lexers) >= MaxIncludeDepth THEN
       IncRaise(lexers, "FeatureLibError", "Too many recursive includes",
                fname_location)
     ELSE IF ~CanOpen(fs, path) THEN
       IncRaise(lexers, "FeatureLibError", "No such file or directory",
                fname_location)
     ELSE
       IncRaise(Append(lexers, make_lexer_(fs, path)), "continue", "",
                NoLocation)

RECURSIVE IncludingLexer_next(_, _)

\* The loop goes round again after a push, and leaves when the push raised.
Continue(fs, pushed) ==
  IF pushed.outcome = "continue" THEN IncludingLexer_next(fs, pushed.lexers_)
  ELSE pushed

\* Mutant of IncludeBranch: the location handed on is that of the ';'.
IncludeBranch_SemiLocation(fs, lexers, fname, semi) ==
  Continue(fs, PushInclude(fs, SetTop(lexers, semi.lexer), semi.lexer,
                           fname.token, semi.location))

\* Lines 184-190: the directive is complete; semi is the outcome of the
\* third lexer.next().
IncludeBranch(fs, lexers, fname, semi) ==
  Continue(fs, PushInclude(fs, SetTop(lexers, semi.lexer), semi.lexer,
                           fname.token, fname.location))

\* Lines 181-183: fname is the outcome of the second lexer.next().
ExpectSemi(fs, lexers, fname, semi) ==
  IF semi.outcome # "TOKEN" THEN IncResult(SetTop(lexers, semi.lexer), semi)
  ELSE IF semi.token_type # SYMBOL \/ semi.token # <<";">> THEN
    IncRaise(SetTop(lexers, semi.lexer), "FeatureLibError", "Expected ';'",
             semi.location)
  ELSE IncludeBranch(fs, lexers, fname, semi)

\* Lines 178-180.
ExpectFilename(fs, lexers, fname) ==
  IF fname.outcome # "TOKEN" THEN IncResult(SetTop(lexers, fname.lexer), fname)
  ELSE IF fname.token_type # FILENAME THEN
    IncRaise(SetTop(lexers, fname.lexer), "FeatureLibError",
             "Expected file name", fname.location)
  ELSE ExpectSemi(fs, lexers, fname, Lexer_next(fname.lexer))

\* Lines 172-192: t is the outcome of lexer.next() on the top Lexer.
Dispatch(fs, lexers, t) ==
  IF t.outcome = "StopIteration" THEN IncludingLexer_next(fs, Pop(lexers))
  ELSE IF t.outcome # "TOKEN" THEN IncResult(SetTop(lexers, t.lexer), t)
  ELSE IF t.token_type = NAME /\ t.token = INCLUDE THEN
    ExpectFilename(fs, lexers, Lexer_next(t.lexer))
  ELSE IncResult(SetTop(lexers, t.lexer), t)

IncludingLexer_next(fs, lexers) ==
  IF lexers = <<>> THEN IncRaise(lexers, "StopIteration", "", NoLocation)
  ELSE Dispatch(fs, lexers, Lexer_next(lexers[Len(lexers)]))

(***************************************************************************)
(* Inputs: source files of a small file system, and the buffers a lone     *)
(* Lexer is run on.                                                        *)
(***************************************************************************)
\* Bounds of the model.
MaxItems == 2
MaxTextLen == 3
MaxTailLen == 4
MaxNumber == 120
MaxExcess == 2       \* glyph class names run to MaxGlyphClassLen + MaxExcess

\* An include statement naming file f.
Directive(f) == INCLUDE \o <<"(">> \o f \o <<")", ";">>

RECURSIVE Join(_)
\* The texts of a sequence of items, one space between neighbours.
Join(items) ==
  IF items = <<>> THEN <<>>
  ELSE IF Len(items) = 1 THEN items[1]
  ELSE items[1] \o <<" ">> \o Join(Tail(items))

DigitChar(k) == <<"0", "1", "2", "3", "4", "5", "6", "7", "8", "9">>[k + 1]

\* The files of the chain: file k includes file k + 1, the last includes
\* nothing.  The chain is one file longer than the stack may grow.
ChainFiles == MaxIncludeDepth + 1

ChainText(k) ==
  IF k < ChainFiles
  THEN Join(<< <<DigitChar(k)>>, Directive(<<DigitChar(k + 1)>>), <<DigitChar(k)>> >>)
  ELSE <<DigitChar(k)>>

InDir(name) == <<"d", "/">> \o name

RootPath == InDir(<<"r">>)

\* The files beside the root: path and text.
Library ==
  { <<InDir(<<"a">>), <<"A">>>>,
    <<InDir(<<"b">>), Join(<< <<"B">>, <<"#", "c", "\n">>, Directive(<<"a">>), <<"b">> >>)>>,
    <<InDir(<<"s">>), Join(<< <<"s">>, Directive(<<"s">>) >>)>>,
    <<InDir(<<"e", "/", "f">>), Join(<< Directive(<<"g">>), <<"f">> >>)>>,
    <<InDir(<<"e", "/", "g">>), <<"G">>>>,
    <<InDir(<<"g">>), <<"W">>>>,
    <<InDir(<<"h">>), Join(<< <<"h">>, INCLUDE >>)>>,
    <<InDir(<<"i">>), INCLUDE \o <<"(", "a", ")">>>> }
  \cup { <<InDir(<<DigitChar(k)>>), ChainText(k)>> : k \in 1..ChainFiles }

\* The file system whose root source holds rootText.
FileSystem(rootText) ==
  [p \in {e[1] : e \in Library} \cup {RootPath} |->
     IF p = RootPath THEN rootText
     ELSE (CHOOSE e \in Library : e[1] = p)[2]]

\* What a root source is made of.
Items ==
  { <<"x">>, <<"0">>, <<"#", "c", "\n">>, <<"@">>, <<";">>, <<"(", "a", ")">>,
    INCLUDE, INCLUDE \o <<"(", "a", ")">>,
    Directive(<<"a">>), Directive(<<"b">>), Directive(<<"s">>),
    Directive(<<"e", "/", "f">>), Directive(<<"z">>),
    Directive(<<"h">>), Directive(<<"i">>) }
  \cup { Directive(<<DigitChar(k)>>) : k \in 1..3 }

RECURSIVE ItemSeqs(_)
ItemSeqs(n) ==
  IF n = 0 THEN { <<>> }
  ELSE LET shorter == ItemSeqs(n - 1)
       IN shorter \cup { Append(q, i) : q \in shorter, i \in Items }

RootTexts == { Join(q) : q \in ItemSeqs(MaxItems) }

RECURSIVE Strings(_, _)
\* The character sequences over alphabet of length at most n.
Strings(alphabet, n) ==
  IF n = 0 THEN { <<>> }
  ELSE LET shorter == Strings(alphabet, n - 1)
       IN shorter \cup { Append(q, c) : q \in shorter, c \in alphabet }

RECURSIVE Decimal(_)
\* The digits of n >= 0.
Decimal(n) ==
  IF n < 10 THEN <<DigitChar(n)>>
  ELSE Append(Decimal(n \div 10), DigitChar(n % 10))

\* str(n)
Str(n) == IF n < 0 THEN <<"-">> \o Decimal(0 - n) ELSE Decimal(n)

LexerAlphabet ==
  {"0", "1", "-", "x", "\\", "\n", "\r", " ", "a", "@", "#", "\""}

TailAlphabet == {"(", ")", "\n", "a", " ", ";"}

\* '@' and a run of name characters of every length up to the bound, with
\* at most one character ('+') that a glyph class name may not hold.
GlyphTexts ==
  { <<"@">> \o [i \in 1..n |-> IF i = k THEN "+" ELSE "a"] :
      n \in 0..(MaxGlyphClassLen + MaxExcess),
      k \in 0..(MaxGlyphClassLen + MaxExcess) }

\* The text 'include' inside a glyph class name, a string and a comment.
LookalikeTexts ==
  { <<c>> \o INCLUDE \o q :
      c \in {"@", "\"", "#"},
      q \in { <<>>, <<"\"">>, <<"(", "a", ")">>, <<"\"", "(", "a", ")">>,
              <<"\n", "(", "a", ")">> } }

LexerTexts ==
  Strings(LexerAlphabet, MaxTextLen)
  \cup { Str(n) : n \in (0 - MaxNumber)..MaxNumber }
  \cup { INCLUDE \o q : q \in Strings(TailAlphabet, MaxTailLen) }
  \cup GlyphTexts
  \cup LookalikeTexts

LexerPath == <<"t">>

(***************************************************************************)
(* State.                                                                  *)
(***************************************************************************)
VARIABLES
  files,     \* the file system: path -> text
  lexers_,   \* IncludingLexer.lexers_; for a lone Lexer, the Lexer alone
  result,    \* what the latest call returned or raised
  returned,  \* the tokens returned so far, in order
  failed,    \* some call raised something other than StopIteration,
             \* or StopIteration left an IncludingLexer with Lexers stacked
  stopped    \* some call raised StopIteration

vars == <<files, lexers_, result, returned, failed, stopped>>

NoResult ==
  [outcome |-> "none", token_type |-> "", token |-> <<>>, value |-> 0,
   location |-> NoLocation, message |-> "", start |-> 0]

Token(r) ==
  [token_type |-> r.token_type, token |-> r.token, value |-> r.value,
   location |-> r.location]

\* What a call leaves in result: its outcome without the Lexers.
Outcome(r) ==
  [outcome |-> r.outcome, token_type |-> r.token_type, token |-> r.token,
   value |-> r.value, location |-> r.location, message |-> r.message,
   start |-> IF "start" \in DOMAIN r THEN r.start ELSE 0]

Returned(r) ==
  IF r.outcome = "TOKEN" THEN Append(returned, Token(r)) ELSE returned

\* A StopIteration that leaves Lexers on the stack is not the end of the
\* sequence the IncludingLexer was to yield.
Failed(r, lexers) ==
  \/ failed
  \/ r.outcome \notin {"TOKEN", "StopIteration"}
  \/ r.outcome = "StopIteration" /\ lexers # <<>>

Stopped(r) == stopped \/ r.outcome = "StopIteration"

(***************************************************************************)
(* IncludingLexer: __init__ on the root source, then calls of __next__.    *)
(***************************************************************************)
Init ==
  /\ \E text \in RootTexts : files = FileSystem(text)
  /\ lexers_ = << make_lexer_(files, RootPath) >>
  /\ result = NoResult
  /\ returned = <<>>
  /\ failed = FALSE
  /\ stopped = FALSE

Pull ==
  LET r == IncludingLexer_next(files, lexers_)
  IN /\ lexers_' = r.lexers_
     /\ result' = Outcome(r)
     /\ returned' = Returned(r)
     /\ failed' = Failed(r, r.lexers_)
     /\ stopped' = Stopped(r)
     /\ UNCHANGED files

Next == Pull

Spec == Init /\ [][Next]_vars

(***************************************************************************)
(* A lone Lexer on one buffer: calls of next_ (raw) and of next.           *)
(***************************************************************************)
InitLexer ==
  /\ files = <<>>
  /\ \E text \in LexerTexts : lexers_ = << Lexer(text, LexerPath) >>
  /\ result = NoResult
  /\ returned = <<>>
  /\ failed = FALSE
  /\ stopped = FALSE

LexerNextRaw ==
  LET r == next_(lexers_[1])
  IN /\ lexers_' = << r.lexer >>
     /\ result' = Outcome(r)
     /\ returned' = Returned(r)
     /\ failed' = Failed(r, <<>>)
     /\ stopped' = Stopped(r)
     /\ UNCHANGED files

LexerNext ==
  LET r == Lexer_next(lexers_[1])
  IN /\ lexers_' = << r.lexer >>
     /\ result' = Outcome(r)
     /\ returned' = Returned(r)
     /\ failed' = Failed(r, <<>>)
     /\ stopped' = Stopped(r)
     /\ UNCHANGED files

NextLexer == LexerNextRaw \/ LexerNext

SpecLexer == InitLexer /\ [][NextLexer]_vars

(***************************************************************************)
(* Vocabulary of the properties.                                           *)
(***************************************************************************)
Top(lexers) == lexers[Len(lexers)]

IsToken(r, token_type, token) ==
  r.outcome = "TOKEN" /\ r.token_type = token_type /\ r.token = token

IsTokenOfType(r, token_type) ==
  r.outcome = "TOKEN" /\ r.token_type = token_type

\* The outcomes of the next three calls of next() on a Lexer.
FirstNext(lexer) == Lexer_next(lexer)
SecondNext(lexer) == Lexer_next(FirstNext(lexer).lexer)
ThirdNext(lexer) == Lexer_next(SecondNext(lexer).lexer)

\* The Lexer is about to yield the Name 'include'.
IncludeAhead(lexer) == IsToken(FirstNext(lexer), NAME, INCLUDE)

\* The Lexer is about to yield a whole directive: include (F) ;
DirectiveAhead(lexer) ==
  /\ IncludeAhead(lexer)
  /\ IsTokenOfType(SecondNext(lexer), FILENAME)
  /\ IsToken(ThirdNext(lexer), SYMBOL, <<";">>)

RECURSIVE Active(_)
\* The stack once the exhausted Lexers on top of it are popped: its top is
\* the Lexer the next pull reads its first token from.
Active(lexers) ==
  IF lexers = <<>> THEN lexers
  ELSE IF Lexer_next(Top(lexers)).outcome = "StopIteration"
       THEN Active(Pop(lexers))
       ELSE lexers

\* The path the directive ahead of the Lexer names.
DirectivePath(lexer) ==
  PathJoin(PathHead(lexer.filename_), SecondNext(lexer).token)

IsLexError(r, message) ==
  r.outcome = "FeatureLibError" /\ r.message = message

TooDeep == "Too many recursive includes"

\* The stack after the call holds the same Lexers as before it, those
\* under the top untouched.
SameStack(before, after) ==
  /\ Len(after) = Len(before)
  /\ \A i \in 1..Len(before) :
       /\ after[i].filename_ = before[i].filename_
       /\ i < Len(before) => after[i] = before[i]

IsPrefix(s, t) == Len(s) <= Len(t) /\ s = SubSeq(t, 1, Len(s))

(***************************************************************************)
(* C1                                                                      *)
(***************************************************************************)
\* A directive met with MaxIncludeDepth Lexers stacked: the pull raises
\* 'Too many recursive includes' at the Filename token's location and
\* pushes nothing.
C1_Step ==
  (Len(lexers_) = MaxIncludeDepth /\ DirectiveAhead(Top(lexers_)))
    => /\ IsLexError(result', TooDeep)
       /\ result'.location = SecondNext(Top(lexers_)).location
       /\ SameStack(lexers_, lexers_')

\* C1: the stack of Lexers never holds more than 5 Lexers, and an include
\* directive met while it holds 5 fails with the nesting-depth error at the
\* Filename token's location, the stack keeping the Lexers it held.
C1_DepthBounded ==
  /\ [](Len(lexers_) <= MaxIncludeDepth)
  /\ [][C1_Step]_vars

C1_Witness ==
  /\ IsLexError(result, TooDeep)
  /\ Len(lexers_) = MaxIncludeDepth
  /\ result.location.file = Top(lexers_).filename_

(***************************************************************************)
(* C2                                                                      *)
(***************************************************************************)
\* The root source is the head of the chain: it includes file k.
ChainRoot(k) == files[RootPath] = Directive(<<DigitChar(k)>>)

\* The include directives nested from that root down to the last file.
NestedDirectives(k) == ChainFiles - k + 1

\* Until something fails, a pull returns a token or fails for the depth.
FailsTooDeep ==
  ~failed => result'.outcome = "TOKEN" \/ IsLexError(result', TooDeep)

\* Until something fails, a pull returns a token or ends the sequence.
RunsToEnd ==
  ~failed => \/ result'.outcome = "TOKEN"
             \/ result'.outcome = "StopIteration" /\ lexers_' = <<>>

\* C2 as claimed: a chain of 6 nested include directives fails with the
\* nesting-depth error, a chain of exactly 5 runs to the end without error.
C2_Original ==
  [][\A k \in 1..3 : ChainRoot(k) =>
       /\ NestedDirectives(k) = MaxIncludeDepth + 1 => FailsTooDeep
       /\ NestedDirectives(k) = MaxIncludeDepth => RunsToEnd]_vars

\* C2, amended: the root Lexer counts among the 5, so a chain of 5 (or more)
\* nested include directives fails with the nesting-depth error, and a chain
\* of exactly 4 (5 files, the root included) runs to the end without error.
C2_ChainLimit ==
  [][\A k \in 1..3 : ChainRoot(k) =>
       /\ NestedDirectives(k) >= MaxIncludeDepth => FailsTooDeep
       /\ NestedDirectives(k) = MaxIncludeDepth - 1 => RunsToEnd]_vars

C2_Witness ==
  /\ ChainRoot(2)
  /\ NestedDirectives(2) = MaxIncludeDepth
  /\ IsLexError(result, TooDeep)
  /\ Len(returned) = MaxIncludeDepth - 1

\* The chain of 4 directives reaches the end, every file's tokens returned.
C2_WitnessShort ==
  /\ ChainRoot(3)
  /\ stopped /\ ~failed /\ lexers_ = <<>>
  /\ Len(returned) = 2 * (MaxIncludeDepth - 2) + 1

(***************************************************************************)
(* C3                                                                      *)
(***************************************************************************)
RECURSIVE TokensFrom(_)
\* The tokens next() yields from a Lexer on, up to its first exception.
TokensFrom(lexer) ==
  IF Lexer_next(lexer).outcome # "TOKEN" THEN <<>>
  ELSE <<Token(Lexer_next(lexer))>> \o TokensFrom(Lexer_next(lexer).lexer)

IsIncludeName(tok) == tok.token_type = NAME /\ tok.token = INCLUDE

\* tok is the ';' that follows the Name 'include' and a Filename in its file.
IsTerminator(tok, toks) ==
  /\ tok.token_type = SYMBOL /\ tok.token = <<";">>
  /\ \E j \in 3..Len(toks) :
       /\ toks[j] = tok
       /\ toks[j - 1].token_type = FILENAME
       /\ IsIncludeName(toks[j - 2])

IsDirectiveToken(tok) ==
  \/ IsIncludeName(tok)
  \/ tok.token_type = FILENAME
  \/ /\ tok.location.file \in DOMAIN files
     /\ IsTerminator(tok, TokensFrom(make_lexer_(files, tok.location.file)))

\* C3 as claimed: whatever the files and however many pulls are made, the
\* IncludingLexer returns no Name 'include', no Filename token and no ';'
\* that terminates an include directive.
C3_Original ==
  result.outcome = "TOKEN" => ~IsDirectiveToken(Token(result))

(***************************************************************************)
(* C4                                                                      *)
(***************************************************************************)
\* One token of the walk below: raw takes it from next_, else from next().
Scan(lexer, raw) == IF raw THEN next_(lexer) ELSE Lexer_next(lexer)

Expanded(toks, ok) == [toks |-> toks, ok |-> ok]

RECURSIVE ExpandFrom(_, _, _, _, _)

\* sub is the expansion of the included file, the including Lexer goes on
\* after the ';' when the included file was expanded to its end.
ExpandAfter(fs, lexer, depth, raw, sub) ==
  IF sub.ok THEN ExpandFrom(fs, lexer, depth, raw, sub.toks) ELSE sub

\* The Lexer stands before a whole directive.
ExpandDirective(fs, lexer, depth, raw, acc) ==
  IF depth >= MaxIncludeDepth \/ ~CanOpen(fs, DirectivePath(lexer))
  THEN Expanded(acc, FALSE)
  ELSE ExpandAfter(fs, ThirdNext(lexer).lexer, depth, raw,
                   ExpandFrom(fs, make_lexer_(fs, DirectivePath(lexer)),
                              depth + 1, raw, acc))

ExpandToken(fs, lexer, depth, raw, acc, t) ==
  IF t.outcome = "StopIteration" THEN Expanded(acc, TRUE)
  ELSE IF t.outcome # "TOKEN" THEN Expanded(acc, FALSE)
  ELSE IF t.token_type = NAME /\ t.token = INCLUDE THEN
    IF DirectiveAhead(lexer) THEN ExpandDirective(fs, lexer, depth, raw, acc)
    ELSE Expanded(acc, FALSE)
  ELSE ExpandFrom(fs, t.lexer, depth, raw, Append(acc, Token(t)))

\* The token sequence of a source from a Lexer on, every directive
\* 'include(F);' replaced in place by the token sequence of F, expanded the
\* same way; depth counts the sources open.  It ends (ok = FALSE) at the
\* first thing that is no token and no whole directive of a file that can
\* be opened within the depth allowed.
ExpandFrom(fs, lexer, depth, raw, acc) ==
  ExpandToken(fs, lexer, depth, raw, acc, Scan(lexer, raw))

Expansion(raw) ==
  ExpandFrom(files, make_lexer_(files, RootPath), 1, raw, <<>>)

\* C4: as long as no pull has failed, the tokens returned are the beginning
\* of the root source's token sequence with every include directive replaced
\* in place by the included file's (expanded) tokens, and they are all of it
\* when the end of the sequence is signalled.
C4_Splice ==
  ~failed =>
    /\ IsPrefix(returned, Expansion(FALSE).toks)
    /\ stopped => returned = Expansion(FALSE).toks /\ Expansion(FALSE).ok

\* Tokens before the directive, the included files' tokens, tokens after it.
C4_Witness ==
  /\ files[RootPath] = Join(<< Directive(<<"b">>), <<"x">> >>)
  /\ stopped /\ ~failed
  /\ Len(returned) = 4
  /\ returned[2].location.file = InDir(<<"a">>)
  /\ returned[4].location.file = RootPath

(***************************************************************************)
(* C5                                                                      *)
(***************************************************************************)
IsTrivia(tok) == tok.token_type \in {COMMENT, NEWLINE}

NoTrivia(toks) == SelectSeq(toks, LAMBDA tok : ~IsTrivia(tok))

\* C5 as claimed: every token the active Lexer's raw scan produces outside
\* an include directive is returned by the IncludingLexer, Comment and
\* Newline tokens too.
C5_Original ==
  (stopped /\ ~failed) => returned = Expansion(TRUE).toks

\* C5, amended: the tokens returned are those of the raw scan (next_)
\* outside the include directives, unchanged and in order, without the
\* Comment and Newline tokens: next() drops these, and the IncludingLexer
\* reads its Lexers through next().
C5_Relay ==
  ~failed =>
    /\ IsPrefix(returned, NoTrivia(Expansion(TRUE).toks))
    /\ stopped => returned = NoTrivia(Expansion(TRUE).toks)

C5_Witness ==
  /\ files[RootPath] = Join(<< <<"#", "c", "\n">>, Directive(<<"b">>) >>)
  /\ stopped /\ ~failed
  /\ Len(returned) = 3
  /\ Len(Expansion(TRUE).toks) = 7

(***************************************************************************)
(* C6 (a lone Lexer, SpecLexer)                                            *)
(***************************************************************************)
\* C6 as claimed: a call of the Lexer returns a token, signals the end of
\* input or raises FeatureLibError with a message and a location, and
\* nothing else ever escapes.
C6_Original ==
  result.outcome \in {"none", "TOKEN", "StopIteration", "FeatureLibError"}

(***************************************************************************)
(* C7 (a lone Lexer, SpecLexer)                                            *)
(***************************************************************************)
IsNumber(r, n) == IsTokenOfType(r, NUMBER) /\ r.value = n

\* C7 as claimed: for every integer n, the buffer str(n) yields exactly one
\* token, a Number of value n, and then the end of input.
C7_Original ==
  \A n \in (0 - MaxNumber)..MaxNumber :
    Top(lexers_).text_ = Str(n) =>
      /\ result.outcome \in {"none", "TOKEN", "StopIteration"}
      /\ result.outcome = "TOKEN" =>
           IsNumber(result, n) /\ returned = <<Token(result)>>
      /\ result.outcome = "StopIteration" => Len(returned) = 1

(***************************************************************************)
(* C8                                                                      *)
(***************************************************************************)
\* The next pull reads the Name 'include' and no whole directive follows.
IncompleteAhead ==
  /\ Active(lexers_) # <<>>
  /\ IncludeAhead(Top(Active(lexers_)))
  /\ ~DirectiveAhead(Top(Active(lexers_)))

\* C8 as claimed: when the active Lexer yields the Name 'include' and not
\* then a Filename and the Symbol ';', the pull fails with a FeatureLibError,
\* also when the source ends inside the directive.
C8_Original ==
  [][IncompleteAhead => result'.outcome = "FeatureLibError"]_vars

(***************************************************************************)
(* C9                                                                      *)
(***************************************************************************)
\* The next pull reads a whole directive naming a file that cannot be opened.
MissingAhead ==
  /\ Active(lexers_) # <<>>
  /\ DirectiveAhead(Top(Active(lexers_)))
  /\ ~CanOpen(files, DirectivePath(Top(Active(lexers_))))

\* The pull failed at location, no Lexer was pushed for the missing file.
FailsAt(location) ==
  /\ result'.outcome = "FeatureLibError"
  /\ result'.location = location
  /\ result'.location.file = Top(Active(lexers_)).filename_
  /\ SameStack(Active(lexers_), lexers_')
  /\ \A i \in 1..Len(lexers_') :
       lexers_'[i].filename_ # DirectivePath(Top(Active(lexers_)))

\* C9 as claimed: the error for a file that cannot be opened is located in
\* the including file at the line and column where the include statement
\* begins, and the stack holds no Lexer for the missing file.
C9_Original ==
  [][MissingAhead => FailsAt(FirstNext(Top(Active(lexers_))).location)]_vars

\* C9, amended: the error is located in the including file at the line and
\* column of the Filename token, the '(' of the file reference, not where
\* the include statement begins; the stack holds no Lexer for the missing
\* file.
C9_FilenameLocation ==
  [][MissingAhead => FailsAt(SecondNext(Top(Active(lexers_))).location)]_vars

C9_Witness ==
  /\ files[RootPath] = Join(<< <<"x">>, Directive(<<"z">>) >>)
  /\ IsLexError(result, "No such file or directory")
  /\ result.location = Location(RootPath, 1, 10)
  /\ Len(lexers_) = 1

(***************************************************************************)
(* C10 (a lone Lexer, SpecLexer)                                           *)
(***************************************************************************)
RECURSIVE LineColumn(_, _, _, _, _)
\* Line and column of offset p, counted over the buffer from offset i on
\* (line: the line of i, line_start: where that line starts): a newline
\* sequence is '\n', or '\r' with the '\n' that may follow it.
LineColumn(text, p, i, line, line_start) ==
  IF i >= p THEN [line |-> line, column |-> p - line_start + 1]
  ELSE IF text[i + 1] = "\n" THEN LineColumn(text, p, i + 1, line + 1, i + 1)
  ELSE IF text[i + 1] = "\r" /\ i + 1 < Len(text) /\ text[i + 2] = "\n"
    THEN LineColumn(text, p, i + 2, line + 1, i + 2)
  ELSE IF text[i + 1] = "\r" THEN LineColumn(text, p, i + 1, line + 1, i + 1)
  ELSE LineColumn(text, p, i + 1, line, line_start)

TrueLocation(lexer, p) ==
  Location(lexer.filename_,
           LineColumn(lexer.text_, p, 0, 1, 0).line,
           LineColumn(lexer.text_, p, 0, 1, 0).column)

\* C10 as claimed: the location of every token a Lexer returns names the
\* line and column of the token's first character, counted in newline
\* sequences and characters from the start of the buffer.
C10_Original ==
  result.outcome = "TOKEN" =>
    result.location = TrueLocation(Top(lexers_), result.start)

(***************************************************************************)
(* C11 (a lone Lexer, SpecLexer)                                           *)
(***************************************************************************)
\* The call returned a Filename token whose text is what stands strictly
\* between the '(' the scan started at and the first ')' after it.
IsEnclosedFilename(r, lexer) ==
  /\ IsTokenOfType(r, FILENAME)
  /\ lexer.text_[r.start + 1] = "("
  /\ lexer.text_[lexer.pos_] = ")"
  /\ r.token = Slice(lexer.text_, r.start + 1, lexer.pos_ - 1)
  /\ \A i \in 1..Len(r.token) : r.token[i] # ")"

IsMalformedFilename(r) ==
  \/ IsLexError(r, "Expected '(' before file name")
  \/ IsLexError(r, "Expected ')' after file name")

\* C11 as claimed: the call that follows the one that returned the Name
\* 'include' returns the Filename token enclosed in parentheses or fails
\* with the file name LexError; it returns no other token and does not
\* signal the end of the input.
C11_Original ==
  [][IsToken(result, NAME, INCLUDE) =>
       \/ IsEnclosedFilename(result', Top(lexers_'))
       \/ IsMalformedFilename(result')]_vars

(***************************************************************************)
(* C12                                                                     *)
(***************************************************************************)
\* C12 as claimed: a pull that failed with a FeatureLibError halts the
\* stream, the pull that follows it on the same object returns no token.
C12_Original ==
  [][result.outcome = "FeatureLibError" => result'.outcome # "TOKEN"]_vars

(***************************************************************************)
(* C13 (a lone Lexer, SpecLexer)                                           *)
(***************************************************************************)
\* The run of name characters that follows the '@' at offset start.
GlyphName(lexer, start) ==
  Slice(lexer.text_, start + 1,
        ScanOverFrom(lexer.text_, start + 1, CHAR_NAME_CONTINUATION_))

\* The location the Lexer captures for offset start of its current line.
CapturedLocation(lexer, start) ==
  Location(lexer.filename_, lexer.line_, start - lexer.line_start_ + 1)

IsLegalGlyphChar(c) == c \in CHAR_LETTER_ \cup CHAR_DIGIT_ \cup {"_", "."}

\* The call scanned from a '@' met in normal mode.
MetGlyphClass(before, r, after) ==
  /\ before.mode_ = MODE_NORMAL_
  /\ r.outcome # "none"
  /\ r.start < Len(after.text_)
  /\ after.text_[r.start + 1] = "@"

\* What the claim prescribes for the name that follows the '@'.
GlyphClassRule(r, name) ==
  IF Len(name) = 0 THEN IsLexError(r, TooShortMessage)
  ELSE IF Len(name) > MaxGlyphClassLen THEN IsLexError(r, TooLongMessage)
  ELSE IF \E i \in 1..Len(name) : ~IsLegalGlyphChar(name[i])
    THEN IsLexError(r, IllegalMessage)
  ELSE IsToken(r, GLYPHCLASS, name)

\* C13: a call that meets '@' returns a GlyphClass token whose name has 1 to
\* 30 characters, all letters, digits, '_' or '.', or fails with a
\* FeatureLibError at the location captured at the '@'; the rule cited is
\* the first broken one of: empty name, more than 30 characters, illegal
\* character.
C13_GlyphClass ==
  [][MetGlyphClass(Top(lexers_), result', Top(lexers_')) =>
       /\ result'.location = CapturedLocation(Top(lexers_'), result'.start)
       /\ GlyphClassRule(result', GlyphName(Top(lexers_'), result'.start))]_vars

\* A name of more than 30 characters that holds an illegal one was refused
\* for its length.
C13_Witness ==
  /\ IsLexError(result, TooLongMessage)
  /\ \E i \in 1..Len(Top(lexers_).text_) : Top(lexers_).text_[i] = "+"

(***************************************************************************)
(* C14 (a lone Lexer, SpecLexer, raw calls)                                *)
(***************************************************************************)
\* The characters at offsets a .. b-1 are spaces and tabs.
IsWhitespaceRun(text, a, b) ==
  \A i \in (a + 1)..b : text[i] \in CHAR_WHITESPACE_

\* The text a token was matched from and what the token carries of it.
MatchesRaw(r, raw) ==
  /\ r.token_type \in {NAME, COMMENT, SYMBOL} => r.token = raw
  /\ r.token_type = GLYPHCLASS => <<"@">> \o r.token = raw
  /\ r.token_type = STRING_TOKEN => <<"\"">> \o r.token \o <<"\"">> = raw
  /\ r.token_type = FILENAME => <<"(">> \o r.token \o <<")">> = raw
  /\ r.token_type = NEWLINE => raw \in {<<"\n">>, <<"\r">>, <<"\r", "\n">>}
  /\ r.token_type = CID => raw[1] = "\\"
  /\ r.token_type = NUMBER => raw[1] \in CHAR_DIGIT_ \cup {"-"}

\* One raw call: the token's span starts where the spaces and tabs after
\* the previous span end, is not empty and stays inside the buffer; the end
\* of the input is signalled when only spaces and tabs are left.
SpanStep(before, r, after) ==
  /\ r.outcome = "TOKEN" =>
       /\ before.pos_ <= r.start
       /\ IsWhitespaceRun(before.text_, before.pos_, r.start)
       /\ r.start < after.pos_
       /\ after.pos_ <= Len(before.text_)
       /\ MatchesRaw(r, Slice(before.text_, r.start, after.pos_))
  /\ r.outcome = "StopIteration" =>
       IsWhitespaceRun(before.text_, before.pos_, Len(before.text_))

\* C14: while no call has failed, the spans of the tokens that consecutive
\* raw calls return (Comment and Newline tokens included) are adjacent up
\* to skipped spaces and tabs, do not overlap and reach the end of the
\* buffer: their texts, concatenated, are the buffer without the spaces and
\* tabs between tokens.
C14_Spans ==
  [][(LexerNextRaw /\ ~failed) =>
       SpanStep(Top(lexers_), result', Top(lexers_'))]_vars

\* A buffer with a space in it was scanned to its end by raw calls, a
\* Comment or Newline token among the tokens.
C14_Witness ==
  /\ stopped /\ ~failed
  /\ Len(returned) >= 2
  /\ \E i \in 1..Len(returned) : IsTrivia(returned[i])
  /\ \E i \in 1..Len(Top(lexers_).text_) : Top(lexers_).text_[i] = " "

(***************************************************************************)
(* C15                                                                     *)
(***************************************************************************)
\* __next__ is a function of the files and of lexers_: a pull that leaves
\* lexers_ as it found it is repeated by every later pull, outcome included.
\* C15 as claimed (pulling again and again ends in the end of the sequence
\* or in a FeatureLibError), in the form a finite run refutes: while no pull
\* has failed, a pull that leaves lexers_ as it found it signals the end of
\* the sequence or fails with a FeatureLibError.
C15_Original ==
  [][(~failed /\ lexers_' = lexers_ /\ result' # result) =>
       result'.outcome \in {"StopIteration", "FeatureLibError"}]_vars

(***************************************************************************)
(* C16 (a lone Lexer, SpecLexer)                                           *)
(***************************************************************************)
\* One call: the cursor does not move backwards and stays inside the
\* buffer, a call that returns a token moves it forwards, and a call made
\* after the end of the input was signalled signals it again and leaves
\* the Lexer (cursor, line, mode) as it is.
CursorStep(before, after) ==
  /\ before.pos_ <= after.pos_
  /\ after.pos_ <= Len(after.text_)
  /\ (result'.outcome = "TOKEN" /\ returned' # returned) =>
       before.pos_ < after.pos_
  /\ stopped => (result'.outcome = "StopIteration" /\ after = before)

\* C16: every call of next() or next_() keeps to CursorStep, and the tokens
\* returned so far are no more than the characters the cursor has passed:
\* a buffer of n characters yields at most n tokens, then the end of the
\* input or a failure.
C16_Cursor ==
  /\ [](Len(returned) <= Top(lexers_).pos_)
  /\ [][CursorStep(Top(lexers_), Top(lexers_'))]_vars

\* The end of the input was signalled after two tokens or more, the cursor
\* at the end of the buffer.
C16_Witness ==
  /\ stopped /\ ~failed
  /\ Len(returned) >= 2
  /\ Top(lexers_).pos_ = Len(Top(lexers_).text_)

(***************************************************************************)
(* C17                                                                     *)
(***************************************************************************)
RECURSIVE DirectiveRead(_, _)
\* The file name of the directive that ends at offset pos of the Lexer's
\* buffer, found by reading the buffer token by token from lexer on
\* (<<>> when no directive ends there).
DirectiveRead(lexer, pos) ==
  IF DirectiveAhead(lexer) /\ ThirdNext(lexer).lexer.pos_ = pos
  THEN SecondNext(lexer).token
  ELSE IF FirstNext(lexer).outcome = "TOKEN"
  THEN DirectiveRead(FirstNext(lexer).lexer, pos)
  ELSE <<>>

\* The Lexer above below on the stack is named by the directory of below's
\* file joined with the file name of the directive below has just read.
PushedBeside(below, above) ==
  above.filename_ =
    PathJoin(PathHead(below.filename_),
             DirectiveRead(Lexer(below.text_, below.filename_), below.pos_))

\* Every Lexer on the stack scans the file its name says, and a token just
\* returned is located in the file of the Lexer on top.
NamedBySource ==
  /\ \A i \in 1..Len(lexers_) :
       /\ CanOpen(files, lexers_[i].filename_)
       /\ lexers_[i].text_ = files[lexers_[i].filename_]
  /\ result.outcome = "TOKEN" =>
       result.location.file = Top(lexers_).filename_

\* C17: at every depth the Lexer a directive pushed is named by the path
\* of the directory of the file that holds the directive (the Lexer under
\* it, not the root) joined with the directive's file name; it scans that
\* file, and its tokens are located in it.
C17_RelativePath ==
  /\ NamedBySource
  /\ ~failed =>
       \A i \in 2..Len(lexers_) : PushedBeside(lexers_[i - 1], lexers_[i])

\* The file e/f, included by the root, included g: the Lexer on top is
\* that of e/g, beside e/f, and the token returned is located there.
C17_Witness ==
  /\ Len(lexers_) = 3
  /\ lexers_[2].filename_ = InDir(<<"e", "/", "f">>)
  /\ lexers_[3].filename_ = InDir(<<"e", "/", "g">>)
  /\ IsToken(result, NAME, <<"G">>)
  /\ result.location.file = InDir(<<"e", "/", "g">>)

(***************************************************************************)
(* C18                                                                     *)
(***************************************************************************)
\* C18 as claimed: the end of the sequence is signalled only with an empty
\* stack, and once it was signalled every later pull signals it again: no
\* token is returned after it.
C18_Original ==
  /\ [](result.outcome = "StopIteration" => lexers_ = <<>>)
  /\ [][stopped => result'.outcome = "StopIteration"]_vars

(***************************************************************************)
(* C19 (a lone Lexer, SpecLexer)                                           *)
(***************************************************************************)
\* The last token of toks is the Name 'include'.
EndsWithInclude(toks) == toks # <<>> /\ IsIncludeName(toks[Len(toks)])

\* Every Filename token of toks stands right after a Name 'include'.
FilenamesFollowInclude(toks) ==
  \A i \in 1..Len(toks) :
    toks[i].token_type = FILENAME => (i > 1 /\ IsIncludeName(toks[i - 1]))

\* C19: the Lexer is in file name mode exactly when the last token it
\* returned, Comment and Newline tokens set aside, is the Name 'include';
\* so a Filename token only ever follows such a Name, the mode is normal
\* again after it, and no other token (a glyph class '@include', a string
\* or a comment that holds the text) switches the mode.
C19_Mode ==
  /\ Top(lexers_).mode_ = MODE_FILENAME_ <=> EndsWithInclude(NoTrivia(returned))
  /\ Top(lexers_).mode_ \in {MODE_NORMAL_, MODE_FILENAME_}
  /\ FilenamesFollowInclude(NoTrivia(returned))

\* A Newline was returned after the Name 'include': the Lexer still
\* expects the file name.
C19_Witness ==
  /\ Top(lexers_).mode_ = MODE_FILENAME_
  /\ Len(returned) >= 2
  /\ IsTrivia(returned[Len(returned)])

====
